---- MODULE Spec2Model ----
(***************************************************************************)
(* A model of toykv's write-ahead log: the record codec (kvrecord.rs), the *)
(* log envelope and the WAL manager (wal.rs).                              *)
(*                                                                         *)
(* Byte strings are kept run-length encoded: a byte string is a sequence   *)
(* of runs [b |-> byte, n |-> count], n >= 1, in which no two adjacent     *)
(* runs carry the same byte.  The encoding is canonical, so two byte       *)
(* strings are equal exactly when their encodings are equal.  It lets the  *)
(* model hold values of a few hundred kilobytes, which is what it takes    *)
(* to reach the end of the 256 KiB read buffer that replay() uses.         *)
(***************************************************************************)
EXTENDS Integers, Sequences, FiniteSets, TLC

Min(a, b) == IF a < b THEN a ELSE b
Max(a, b) == IF a < b THEN b ELSE a

(***************************************************************************)
(* Byte strings (Vec<u8>, &[u8], the contents of a file).                  *)
(***************************************************************************)
Run(b, n) == [b |-> b, n |-> n]

\* The number of bytes of a byte string.
RECURSIVE BLen(_)
BLen(s) == IF s = <<>> THEN 0 ELSE s[1].n + BLen(Tail(s))

\* Vec::extend: the bytes of s followed by the bytes of t.
Cat(s, t) ==
    IF s = <<>> THEN t
    ELSE IF t = <<>> THEN s
    ELSE IF s[Len(s)].b = t[1].b
         THEN SubSeq(s, 1, Len(s) - 1)
                \o <<Run(t[1].b, s[Len(s)].n + t[1].n)>>
                \o Tail(t)
         ELSE s \o t

\* Vec::push.
Push(s, b) == Cat(s, <<Run(b, 1)>>)

\* n copies of the byte b.
Fill(b, n) == IF n = 0 THEN <<>> ELSE <<Run(b, n)>>

\* The byte string of a list of bytes, <<119, 0, 0>>.
RECURSIVE FromList(_)
FromList(l) ==
    IF l = <<>> THEN <<>> ELSE Cat(<<Run(l[1], 1)>>, FromList(Tail(l)))

\* The first n bytes of s (all of s when it is shorter).
RECURSIVE BTake(_, _)
BTake(s, n) ==
    IF n <= 0 \/ s = <<>> THEN <<>>
    ELSE IF s[1].n >= n THEN <<Run(s[1].b, n)>>
    ELSE <<s[1]>> \o BTake(Tail(s), n - s[1].n)

\* s without its first n bytes (empty when it is shorter).
RECURSIVE BDrop(_, _)
BDrop(s, n) ==
    IF s = <<>> THEN <<>>
    ELSE IF n <= 0 THEN s
    ELSE IF s[1].n > n THEN <<Run(s[1].b, s[1].n - n)>> \o Tail(s)
    ELSE BDrop(Tail(s), n - s[1].n)

\* The bytes s[pos .. pos+n), cut short at the end of s.
Slice(s, pos, n) == BTake(BDrop(s, pos), n)

\* The byte at offset i (from 0) of s; i < BLen(s).
RECURSIVE ByteAt(_, _)
ByteAt(s, i) == IF i < s[1].n THEN s[1].b ELSE ByteAt(Tail(s), i - s[1].n)

\* u16::to_be_bytes, u32::to_be_bytes.
U16BE(x) == FromList(<<(x \div 256) % 256, x % 256>>)
U32BE(x) ==
    FromList(<<(x \div 16777216) % 256, (x \div 65536) % 256,
               (x \div 256) % 256, x % 256>>)

\* u16::from_be_bytes, u32::from_be_bytes of the bytes at offset i of s.
\* TLC's integers end at 2^31 - 1, which stands for every u32 from there
\* on.  The model writes no such number; one is read only from bytes that
\* are no header, and is then compared with a small sequence number or
\* used as a length that the end of the file cuts short.
FromU16BE(s, i) == ByteAt(s, i) * 256 + ByteAt(s, i + 1)
FromU32BE(s, i) ==
    IF ByteAt(s, i) >= 128 THEN 2147483647
    ELSE ByteAt(s, i) * 16777216 + ByteAt(s, i + 1) * 65536
           + ByteAt(s, i + 2) * 256 + ByteAt(s, i + 3)

(***************************************************************************)
(* kvrecord.rs: the record codec.                                          *)
(***************************************************************************)
MAGIC == 119        \* b'w'
PAD == 0
OP_SET == 1

\* `len as u16` keeps the low 16 bits.  `len as u32` keeps the low 32
\* bits: the lengths of the model are far below 2^32 (and TLC's integers
\* end at 2^31 - 1), where that cast changes nothing.
AsU8(x) == x % 256     \* as if the length were cast with `as u8`
AsU16(x) == x % 65536
AsU32(x) == x

\* WriteKVRecord::serialize: the 16 byte header, then the key, then the
\* value.  The lengths are cast with `as`, which keeps the low bits.
serialize(seq, op, key, value) ==
    LET b1 == Push(<<>>, MAGIC)
        b2 == Cat(b1, U32BE(seq))
        b3 == Push(b2, op)
        b4 == Cat(b3, U16BE(AsU16(BLen(key))))
        b5 == Cat(b4, U32BE(AsU32(BLen(value))))
        b6 == Cat(b5, U32BE(PAD))
        b7 == Cat(b6, key)
    IN  Cat(b7, value)

(***************************************************************************)
(* The reader replay() hands to read_one: a BufReader over the log file.   *)
(***************************************************************************)
\* BufReader::with_capacity(256 * 1024, &file)
BUF_CAPACITY == 256 * 1024

\* The number of bytes one Read::read call with an n byte buffer returns at
\* offset pos of the file.  BufReader::read refills its buffer only when
\* the buffer is drained, and otherwise hands out what is left in it, so
\* a read returns at most the bytes up to the end of the buffer's window.
\* No read of the model asks for BUF_CAPACITY bytes or more on a drained
\* buffer (headers are 6 and 16 bytes, take(keylen) is below 65536, and
\* the values written stay below BUF_CAPACITY), so the buffer is never
\* bypassed and its windows start at the multiples of BUF_CAPACITY.
ReadLen(file, pos, n) ==
    LET windowEnd == Min(BLen(file), ((pos \div BUF_CAPACITY) + 1) * BUF_CAPACITY)
    IN  Max(0, Min(n, windowEnd - pos))

\* r.by_ref().take(n).read_to_end(&mut v): reads until n bytes are read or
\* the file ends, and reports success either way.
ReadToEnd(file, pos, n) == Slice(file, pos, n)

NoKey == <<>>

\* KVRecord::read_one at offset pos of the file.  kind is "none" for
\* Ok(None), "panic" for a failed assert_eq!, "some" for Ok(Some(record)).
KVRecord_read_one(file, pos) ==
    LET n == ReadLen(file, pos, 16)
        header == Slice(file, pos, 16)
        none == [kind |-> "none", key |-> NoKey, value |-> NoKey, pos |-> pos + n]
        panic == [kind |-> "panic", key |-> NoKey, value |-> NoKey, pos |-> pos + n]
    IN  IF n < 16 THEN none
        ELSE IF ByteAt(header, 0) # MAGIC THEN panic
        ELSE IF ByteAt(header, 5) # OP_SET THEN panic
        ELSE IF FromU32BE(header, 12) # PAD THEN panic
        ELSE LET keylen == FromU16BE(header, 6)
                 valuelen == FromU32BE(header, 8)
                 key == ReadToEnd(file, pos + 16, keylen)
                 value == ReadToEnd(file, pos + 16 + BLen(key), valuelen)
             IN  [kind |-> "some", key |-> key, value |-> value,
                  pos |-> pos + 16 + BLen(key) + BLen(value)]

(***************************************************************************)
(* wal.rs: the log envelope.                                               *)
(***************************************************************************)
WAL_MAGIC == 119    \* b'w'

\* WALRecord::write_one: the bytes handed to write_all in one call.  The
\* embedded record carries the envelope's seq and op again in its header.
write_one(seq, key, value) ==
    LET b1 == Push(<<>>, WAL_MAGIC)
        b2 == Cat(b1, U32BE(seq))
        b3 == Push(b2, OP_SET)
    IN  Cat(b3, serialize(seq, OP_SET, key, value))

\* WALRecord::read_one at offset pos of the file.
WALRecord_read_one(file, pos) ==
    LET n == ReadLen(file, pos, 6)
        header == Slice(file, pos, 6)
        blank == [kind |-> "none", seq |-> 0, op |-> 0, key |-> NoKey,
                  value |-> NoKey, pos |-> pos + n]
    IN  IF n < 6 THEN blank
        ELSE IF ByteAt(header, 0) # WAL_MAGIC THEN [blank EXCEPT !.kind = "panic"]
        ELSE LET seq == FromU32BE(header, 1)
                 op == ByteAt(header, 5)
                 kv == KVRecord_read_one(file, pos + 6)
             IN  IF kv.kind = "some"
                 THEN [kind |-> "some", seq |-> seq, op |-> op, key |-> kv.key,
                       value |-> kv.value, pos |-> kv.pos]
                 ELSE [blank EXCEPT !.kind = kv.kind, !.pos = kv.pos]

(***************************************************************************)
(* The on-disk format, as the layout comments of wal.rs and kvrecord.rs    *)
(* give it: | magic | u32 seq | u8 op | and then | magic | u32 seq | u8 op *)
(* | u16 keylen | u32 valuelen | pad | key | value |.  The claims speak of *)
(* "the entries of the log"; these definitions say what they are without   *)
(* going through the reader.                                               *)
(***************************************************************************)
HEADER_LEN == 6 + 16

\* The entry that starts at offset pos of the file, whose two headers lie
\* inside the file.
EntryAt(file, pos) ==
    LET keylen == FromU16BE(file, pos + 12)
        valuelen == FromU32BE(file, pos + 14)
    IN  [pos |-> pos,
         magic |-> ByteAt(file, pos),
         seq |-> FromU32BE(file, pos + 1),
         op |-> ByteAt(file, pos + 5),
         kvmagic |-> ByteAt(file, pos + 6),
         kvop |-> ByteAt(file, pos + 11),
         keylen |-> keylen,
         valuelen |-> valuelen,
         pad |-> FromU32BE(file, pos + 18),
         key |-> Slice(file, pos + HEADER_LEN, keylen),
         value |-> Slice(file, pos + HEADER_LEN + keylen, valuelen),
         \* the bytes of the file from the start of the value on
         room |-> BLen(file) - (pos + HEADER_LEN + keylen)]

\* The complete entries of the file from offset pos on, in file order: the
\* walk stops at the end of the file or at an entry the file ends inside.
RECURSIVE EntriesFrom(_, _)
EntriesFrom(file, pos) ==
    IF BLen(file) - pos < HEADER_LEN THEN <<>>
    ELSE LET e == EntryAt(file, pos)
         IN  IF e.valuelen > e.room THEN <<>>
             ELSE <<e>> \o EntriesFrom(file, pos + HEADER_LEN + e.keylen + e.valuelen)
Entries(file) == EntriesFrom(file, 0)

\* Where the complete entries of the file end.
EntriesEnd(file) ==
    LET es == Entries(file)
        last == es[Len(es)]
    IN  IF es = <<>> THEN 0
        ELSE last.pos + HEADER_LEN + last.keylen + last.valuelen

\* The magic bytes, operation codes and padding of an entry are the valid
\* ones.
GoodFormat(e) ==
    /\ e.magic = WAL_MAGIC
    /\ e.op = OP_SET
    /\ e.kvmagic = MAGIC
    /\ e.kvop = OP_SET
    /\ e.pad = PAD

\* The file is a sequence of complete entries and nothing else.
Framed(file) == EntriesEnd(file) = BLen(file)

\* A well-formed log: complete, valid entries with the sequence numbers
\* 0, 1, 2, ...
WellFormed(file) ==
    /\ Framed(file)
    /\ \A i \in 1..Len(Entries(file)) :
          GoodFormat(Entries(file)[i]) /\ Entries(file)[i].seq = i - 1

\* The file with the byte at offset pos overwritten by b.
SetByte(file, pos, b) ==
    Cat(Push(BTake(file, pos), b), BDrop(file, pos + 1))

(***************************************************************************)
(* wal.rs: the WAL manager.                                                *)
(***************************************************************************)
\* BTreeMap::new and BTreeMap::insert: the memtable as a function from
\* keys to values.
EmptyMap == [k \in {} |-> NoKey]
Insert(m, key, value) ==
    [k \in (DOMAIN m) \cup {key} |-> IF k = key THEN value ELSE m[k]]

\* The faults the environment can inject into one replay() call: none, the
\* open fails, or the read_one call number j (from 0) returns an I/O error.
NoFault == -2
OpenFault == -1

\* The loop of replay(): read_one after read_one from offset pos.  The
\* manager's nextseq and wal_writes are updated in place as the loop goes,
\* so the outcome carries the values they are left with.  applied lists
\* the memtable.insert calls in order.
RECURSIVE replay_loop(_, _, _, _, _, _, _, _)
replay_loop(file, pos, seq, writes, memtable, applied, fault, idx) ==
    LET out(res, expected, actual) ==
            [res |-> res, nextseq |-> seq, wal_writes |-> writes,
             memtable |-> memtable, applied |-> applied,
             expected |-> expected, actual |-> actual]
        rec == WALRecord_read_one(file, pos)
    IN  IF fault = idx THEN out("IoError", 0, 0)
        ELSE IF rec.kind = "panic" THEN out("Panic", 0, 0)
        ELSE IF rec.kind = "none" THEN out("Ok", 0, 0)
        ELSE IF rec.seq # seq THEN out("BadWALSeq", seq, rec.seq)
        ELSE IF rec.op # OP_SET THEN out("Panic", 0, 0)
        ELSE replay_loop(file, rec.pos, rec.seq + 1, writes + 1,
                         Insert(memtable, rec.key, rec.value),
                         Append(applied, <<rec.seq, rec.key, rec.value>>),
                         fault, idx + 1)

\* replay() of a manager made by new() (nextseq = 0, wal_writes = 0) over
\* the file, with no I/O fault.
FreshReplay(file) == replay_loop(file, 0, 0, 0, EmptyMap, <<>>, NoFault, 0)

(***************************************************************************)
(* The inputs and the bounds of the model.                                 *)
(***************************************************************************)
\* write() calls in one behaviour that get past the state check.
MaxWrites == 2
\* Crashes and injected I/O errors in one behaviour, taken together.
MaxIncidents == 2
\* Bytes of the log overwritten from outside in one behaviour.
MaxTampers == 1
\* The last read_one call of a replay() at which an I/O error is injected.
MaxReadFault == 1

\* A value that, with a one byte key, makes an entry end seven bytes before
\* the end of the read buffer's first window: the next entry's six byte
\* header lies inside the window and its sixteen byte header across the end.
BigValue == Fill(120, BUF_CAPACITY - 30)

\* The (key, value) pairs write() is called with: one key written with two
\* values, one of them the big one, and a second, longer key with an empty
\* value.
Writes ==
    {<<FromList(<<1>>), FromList(<<7>>)>>, <<FromList(<<1>>), BigValue>>,
     <<FromList(<<2, 3>>), <<>>>>}
Syncs == {"Full", "Default"}
ReplayFaults == {NoFault, OpenFault} \cup (0..MaxReadFault)
\* write_all may fail having written nothing, or a strict prefix of the
\* buffer; sync_all may fail.
WriteFaults == {"none", "append", "sync"}
PartialLens == {0, 10}
\* The trailing bytes a crash may tear off the unsynced tail of the file,
\* short of losing the whole tail: one byte, which cuts the last entry in
\* its value or, when the value is empty, in its key; or ten, which cuts it
\* in the second of its two headers.
TornLens == {1, 10}
ResetFaults == {"none", "remove", "create"}
\* The header bytes damage overwrites, <<offset in the entry, new byte>>:
\* the two magic bytes, the low byte of the sequence number, the two
\* operation codes, the low byte of the padding.
TamperBytes == {<<0, 120>>, <<4, 5>>, <<5, 2>>, <<6, 120>>, <<11, 2>>, <<21, 1>>}

VARIABLES
    exists,      \* the log file exists at wal_path
    file,        \* its contents (empty when it does not exist)
    synced,      \* the leading bytes of the file known to be on stable storage
    f,           \* WAL.f: "None" or "Some"
    sync,        \* WAL.sync
    nextseq,     \* WAL.nextseq
    wal_writes,  \* WAL.wal_writes
    ret,         \* the last call made and what it returned
    hist,        \* the write() calls issued since the log was last empty
    clean,       \* only successful write() calls changed the log since then
    crashes,     \* crashes so far
    calls,       \* write() calls so far that got past the state check
    faults,      \* I/O errors injected so far
    tampers      \* bytes of the log overwritten from outside so far

disk == <<exists, file, synced>>
manager == <<f, sync, nextseq, wal_writes>>
ghost == <<hist, clean, crashes, calls, faults, tampers>>
vars == <<exists, file, synced, f, sync, nextseq, wal_writes, ret, hist, clean,
          crashes, calls, faults, tampers>>

Ret(op, res, memtable, expected, actual) ==
    [op |-> op, res |-> res, memtable |-> memtable,
     expected |-> expected, actual |-> actual]

\* new(): f: None, nextseq: 0, wal_writes: 0.  The log is absent.
Init ==
    /\ exists = FALSE
    /\ file = <<>>
    /\ synced = 0
    /\ f = "None"
    /\ sync \in Syncs
    /\ nextseq = 0
    /\ wal_writes = 0
    /\ ret = Ret("new", "Ok", EmptyMap, 0, 0)
    /\ hist = <<>>
    /\ clean = TRUE
    /\ crashes = 0
    /\ calls = 0
    /\ faults = 0
    /\ tampers = 0

\* return Err(ToyKVError::BadWALState): nothing but the result changes.
BadWALState(op) ==
    /\ ret' = Ret(op, "BadWALState", EmptyMap, 0, 0)
    /\ UNCHANGED <<disk, manager, ghost>>

\* An injected fault takes one of the MaxIncidents.
Fault(injected) == faults' = IF injected THEN faults + 1 ELSE faults

\* self.f after the loop of replay(): Some(file) is stored on the way to
\* Ok(memtable) only; every error returns before it.
handle_after_always(res) == "Some"   \* as if stored before the loop
handle_after(res) == IF res = "Ok" THEN "Some" ELSE "None"

\* WAL::replay past the state check.
replay_unopened(fault) ==
    IF fault = OpenFault
    THEN /\ ret' = Ret("replay", "IoError", EmptyMap, 0, 0)
         /\ Fault(TRUE)
         /\ UNCHANGED <<disk, manager, hist, clean, crashes, calls, tampers>>
    ELSE \E out \in {replay_loop(file, 0, nextseq, wal_writes, EmptyMap, <<>>,
                                 fault, 0)} :
             /\ fault # NoFault => out.res = "IoError"
             /\ exists' = TRUE
             /\ nextseq' = out.nextseq
             /\ wal_writes' = out.wal_writes
             /\ f' = handle_after(out.res)
             /\ ret' = Ret("replay", out.res,
                           IF out.res = "Ok" THEN out.memtable ELSE EmptyMap,
                           out.expected, out.actual)
             /\ Fault(fault # NoFault)
             /\ UNCHANGED <<file, synced, sync, hist, clean, crashes, calls,
                            tampers>>

\* WAL::replay
replay(fault) ==
    IF f = "Some" THEN fault = NoFault /\ BadWALState("replay")
    ELSE replay_unopened(fault)

Issued(key, value, seq, acked) ==
    [key |-> key, value |-> value, seq |-> seq, acked |-> acked]

\* WAL::write past the state check.
write_ready(key, value, fault, partial) ==
    \E seq \in {nextseq} : \E buf \in {write_one(seq, key, value)} :
        /\ calls' = calls + 1
        /\ Fault(fault # "none")
        /\ UNCHANGED <<exists, f, sync, crashes, tampers>>
        /\ IF fault = "append"
           THEN \* write_all fails after `partial` bytes
                /\ file' = Cat(file, BTake(buf, partial))
                /\ ret' = Ret("write", "IoError", EmptyMap, 0, 0)
                /\ hist' = Append(hist, Issued(key, value, seq, FALSE))
                /\ clean' = FALSE
                /\ UNCHANGED <<synced, nextseq, wal_writes>>
           ELSE IF fault = "sync"
           THEN \* sync_all fails
                /\ sync = "Full"
                /\ file' = Cat(file, buf)
                /\ wal_writes' = wal_writes + 1
                /\ ret' = Ret("write", "IoError", EmptyMap, 0, 0)
                /\ hist' = Append(hist, Issued(key, value, seq, FALSE))
                /\ clean' = FALSE
                /\ UNCHANGED <<synced, nextseq>>
           ELSE /\ file' = Cat(file, buf)
                /\ wal_writes' = wal_writes + 1
                /\ synced' = IF sync = "Full" THEN BLen(file') ELSE synced
                /\ nextseq' = nextseq + 1
                /\ ret' = Ret("write", "Ok", EmptyMap, 0, 0)
                /\ hist' = Append(hist, Issued(key, value, seq, TRUE))
                /\ UNCHANGED clean

\* write() as it would be without the check of self.f.
write_unchecked(key, value, fault, partial) ==
    write_ready(key, value, fault, partial)

\* WAL::write
write(key, value, fault, partial) ==
    IF f = "None" THEN fault = "none" /\ BadWALState("write")
    ELSE write_ready(key, value, fault, partial)

\* The end of reset() as it would be without self.nextseq = 0.
reset_done_keeps_seq ==
    /\ f' = "Some"
    /\ exists' = TRUE
    /\ file' = <<>>
    /\ synced' = 0
    /\ wal_writes' = 0
    /\ UNCHANGED nextseq

\* The end of reset(): the new file is open.
reset_done ==
    /\ f' = "Some"
    /\ exists' = TRUE
    /\ file' = <<>>
    /\ synced' = 0
    /\ nextseq' = 0
    /\ wal_writes' = 0

\* WAL::reset past the state check.
reset_ready(fault) ==
    /\ Fault(fault # "none")
    /\ UNCHANGED <<sync, crashes, calls, tampers>>
    /\ IF fault = "remove"
       THEN \* remove_file fails: the handle is already dropped
            /\ f' = "None"
            /\ ret' = Ret("reset", "IoError", EmptyMap, 0, 0)
            /\ UNCHANGED <<disk, nextseq, wal_writes, hist, clean>>
       ELSE IF fault = "create"
       THEN \* the file is removed and the open fails
            /\ f' = "None"
            /\ exists' = FALSE
            /\ file' = <<>>
            /\ synced' = 0
            /\ hist' = <<>>
            /\ clean' = TRUE
            /\ ret' = Ret("reset", "IoError", EmptyMap, 0, 0)
            /\ UNCHANGED <<nextseq, wal_writes>>
       ELSE /\ reset_done
            /\ hist' = <<>>
            /\ clean' = TRUE
            /\ ret' = Ret("reset", "Ok", EmptyMap, 0, 0)

\* WAL::reset
reset(fault) ==
    IF f = "None" THEN fault = "none" /\ BadWALState("reset")
    ELSE reset_ready(fault)

\* What a crash may keep of an unsynced tail of `tail` bytes: all of it,
\* none of it, or all but some trailing bytes.
Keeps(tail) == {0, tail} \cup {tail - d : d \in {t \in TornLens : t <= tail}}

\* The process stops (a crash, or a shutdown when nothing is torn off) and
\* a manager is made again by new().  The file keeps its synced bytes and
\* the first `keep` bytes of the rest.
Crash(keep) ==
    /\ crashes + faults < MaxIncidents
    /\ crashes' = crashes + 1
    /\ file' = BTake(file, synced + keep)
    /\ synced' = BLen(file')
    /\ clean' = (clean /\ hist = <<>>)
    /\ f' = "None"
    /\ nextseq' = 0
    /\ wal_writes' = 0
    /\ ret' = Ret("new", "Ok", EmptyMap, 0, 0)
    /\ UNCHANGED <<exists, sync, hist, calls, faults, tampers>>

\* The process stops inside write(key, value), after write_all and before
\* sync_all returns: the call never returns, and the file keeps its synced
\* bytes and the first `keep` bytes of the rest, the new entry included.
CrashInWrite(key, value, keep) ==
    /\ f = "Some"
    /\ crashes + faults < MaxIncidents
    /\ crashes' = crashes + 1
    /\ calls' = calls + 1
    /\ file' = BTake(Cat(file, write_one(nextseq, key, value)), synced + keep)
    /\ synced' = BLen(file')
    /\ hist' = Append(hist, Issued(key, value, nextseq, FALSE))
    /\ clean' = FALSE
    /\ f' = "None"
    /\ nextseq' = 0
    /\ wal_writes' = 0
    /\ ret' = Ret("new", "Ok", EmptyMap, 0, 0)
    /\ UNCHANGED <<exists, sync, faults, tampers>>

ReplayStep ==
    \E fault \in ReplayFaults :
        /\ fault # NoFault => crashes + faults < MaxIncidents
        /\ replay(fault)
WriteStep ==
    /\ calls < MaxWrites
    /\ \E kv \in Writes, fault \in WriteFaults :
         \E partial \in (IF fault = "append" THEN PartialLens ELSE {0}) :
              /\ fault # "none" => crashes + faults < MaxIncidents
              /\ write(kv[1], kv[2], fault, partial)
ResetStep ==
    \E fault \in ResetFaults :
        /\ fault # "none" => crashes + faults < MaxIncidents
        /\ reset(fault)
CrashStep == \E keep \in Keeps(BLen(file) - synced) : Crash(keep)
CrashInWriteStep ==
    /\ calls < MaxWrites
    /\ \E kv \in Writes :
         \E keep \in Keeps(BLen(file) + BLen(write_one(nextseq, kv[1], kv[2]))
                             - synced) :
              CrashInWrite(kv[1], kv[2], keep)

\* The log is damaged from outside while no process has it open: one byte
\* of one entry's headers is overwritten.
Tamper(pos, b) ==
    /\ tampers' = tampers + 1
    /\ ByteAt(file, pos) # b
    /\ file' = SetByte(file, pos, b)
    /\ clean' = FALSE
    /\ UNCHANGED <<exists, synced, manager, ret, hist, crashes, calls, faults>>
TamperStep ==
    /\ ret.op = "new"
    /\ tampers < MaxTampers
    /\ \E es \in {Entries(file)} :
         \E i \in 1..Len(es), t \in TamperBytes :
             Tamper(es[i].pos + t[1], t[2])

Next == ReplayStep \/ WriteStep \/ ResetStep \/ CrashStep \/ CrashInWriteStep

Spec == Init /\ [][Next]_vars

\* The same, with a log that may be damaged from outside.
NextT == Next \/ TamperStep
SpecT == Init /\ [][NextT]_vars

(***************************************************************************)
(* The codec on its own: write() calls that succeed, on a manager that is  *)
(* open on an empty log, with keys and values whose lengths lie on both    *)
(* sides of what the header fields hold.                                   *)
(***************************************************************************)
\* Key lengths around the ends of a u8 and of a u16 length field.
KeyLens == {0, 1, 256, 65535, 65536, 65537}
CodecKeys == {Fill(5, n) : n \in KeyLens} \cup {FromList(<<2, 3>>)}
\* An empty value, a short one, and one longer than a u16 holds.
CodecValues == {<<>>, FromList(<<7>>), Fill(6, 70000)}

\* new(), then a replay() that found no log: an open manager, an empty file.
InitC ==
    /\ exists = TRUE
    /\ file = <<>>
    /\ synced = 0
    /\ f = "Some"
    /\ sync \in Syncs
    /\ nextseq = 0
    /\ wal_writes = 0
    /\ ret = Ret("replay", "Ok", EmptyMap, 0, 0)
    /\ hist = <<>>
    /\ clean = TRUE
    /\ crashes = 0
    /\ calls = 0
    /\ faults = 0
    /\ tampers = 0

\* write(key, value) with no I/O error.
EncodeStep ==
    /\ calls < MaxWrites
    /\ \E key \in CodecKeys, value \in CodecValues :
         write(key, value, "none", 0)

NextC == EncodeStep
SpecC == InitC /\ [][NextC]_vars

(***************************************************************************)
(* One manager over a log that exists already: new() at a path where an    *)
(* earlier process left a well-formed log (or none), and then calls that   *)
(* meet no I/O error and no crash.                                         *)
(***************************************************************************)
\* The entries of the log the manager finds.
MaxInitEntries == 2

\* The write() calls that made the log: for each, the pair written and the
\* sequence number it took.
InitHists ==
    UNION {[1..n -> Writes] : n \in 0..MaxInitEntries}
RECURSIVE LogOf(_, _)
LogOf(ws, n) ==
    IF n = 0 THEN <<>>
    ELSE Cat(LogOf(ws, n - 1), write_one(n - 1, ws[n][1], ws[n][2]))

InitW ==
    /\ \E ws \in InitHists :
         /\ file = LogOf(ws, Len(ws))
         /\ hist = [i \in 1..Len(ws) |-> Issued(ws[i][1], ws[i][2], i - 1, TRUE)]
    /\ exists \in {e \in BOOLEAN : e \/ file = <<>>}
    /\ synced = BLen(file)
    /\ f = "None"
    /\ sync \in Syncs
    /\ nextseq = 0
    /\ wal_writes = 0
    /\ ret = Ret("new", "Ok", EmptyMap, 0, 0)
    /\ clean = TRUE
    /\ crashes = 0
    /\ calls = 0
    /\ faults = 0
    /\ tampers = 0

\* The calls, with no fault injected.
ReplayOkStep == \E fault \in {NoFault} : replay(fault)
WriteOkStep ==
    /\ calls < MaxWrites
    /\ \E kv \in Writes : write(kv[1], kv[2], "none", 0)
ResetOkStep == \E fault \in {"none"} : reset(fault)

NextW == ReplayOkStep \/ WriteOkStep \/ ResetOkStep
SpecW == InitW /\ [][NextW]_vars

(***************************************************************************)
(* The claims.                                                             *)
(***************************************************************************)
\* What replay applies when every write() call of h is in the log.
Applied(h) == [i \in 1..Len(h) |-> <<h[i].seq, h[i].key, h[i].value>>]

\* C1: after N successful write() calls on a manager that was ready on an
\* empty log, a fresh manager's replay of the log succeeds, applies the N
\* entries in the order written, with the sequence numbers 0..N-1, and
\* ends with nextseq = N.
C1_ReplayYieldsEveryWrite ==
    (clean /\ f = "Some") =>
        LET r == FreshReplay(file)
        IN  /\ r.res = "Ok"
            /\ Len(r.applied) = Len(hist)
            /\ r.applied = Applied(hist)
            /\ \A i \in 1..Len(hist) : hist[i].seq = i - 1
            /\ r.nextseq = Len(hist)

\* C2: write() and reset() on a manager that is not open, and replay() on
\* one that is, fail with BadWALState and change neither the handle, nor
\* nextseq, nor wal_writes, nor the log file.
C2_BadStateCallsChangeNothing ==
    [][((ret'.op \in {"write", "reset"} /\ f = "None")
          \/ (ret'.op = "replay" /\ f = "Some"))
        => (/\ ret'.res = "BadWALState"
            /\ UNCHANGED <<f, nextseq, wal_writes, exists, file>>)]_vars

\* A second replay() was refused on a manager that holds entries.
C2_Witness == ret.op = "replay" /\ ret.res = "BadWALState" /\ nextseq > 0

\* The memtable m reflects the write hist[i]: it maps the key to the value
\* of that write or of a later write of the same key.
Reflected(m, i) ==
    /\ hist[i].key \in DOMAIN m
    /\ \E j \in i..Len(hist) :
         hist[j].key = hist[i].key /\ m[hist[i].key] = hist[j].value

\* C3: under the Full policy, right after a crash, a fresh manager's replay
\* succeeds and its memtable reflects every write() that had returned Ok.
C3_AckedWritesSurviveCrash ==
    (sync = "Full" /\ ret.op = "new" /\ crashes > 0 /\ tampers = 0) =>
        LET r == FreshReplay(file)
        IN  /\ r.res = "Ok"
            /\ \A i \in 1..Len(hist) : hist[i].acked => Reflected(r.memtable, i)

\* The file is a well-formed log followed by one more valid entry that is
\* cut inside its key and value bytes: after the first of them and before
\* the last.
TornInBody(log) ==
    LET end == EntriesEnd(log)
        e == EntryAt(log, end)
        got == BLen(log) - end - HEADER_LEN
    IN  /\ BLen(log) - end > HEADER_LEN
        /\ WellFormed(BTake(log, end))
        /\ GoodFormat(e)
        /\ e.seq = Len(Entries(log))
        /\ 0 < got
        /\ got < e.keylen + e.valuelen

\* C4: replay of a well-formed log cut inside the key or the value of its
\* last entry fails, and replay applies complete entries only.
C4_TruncatedBodyRejected ==
    LET r == FreshReplay(file)
        es == Entries(file)
    IN  /\ TornInBody(file) => r.res # "Ok"
        /\ \A i \in 1..Len(r.applied) :
             /\ i <= Len(es)
             /\ r.applied[i] = <<es[i].seq, es[i].key, es[i].value>>

IsAcked(h) == h.acked

\* C5: a write() that fails leaves nextseq as it was, and when the same
\* write is then made again and succeeds, a fresh manager replays the log
\* successfully and applies the entry once, under the sequence number of
\* the first attempt.
C5_RetryAfterFailedWrite ==
    LET n == Len(hist)
    IN  (/\ n >= 2
         /\ crashes = 0
         /\ ret.op = "write" /\ ret.res = "Ok"
         /\ hist[n].acked /\ ~hist[n - 1].acked
         /\ hist[n].key = hist[n - 1].key
         /\ hist[n].value = hist[n - 1].value
         /\ \A j \in 1..(n - 2) : hist[j].acked)
        => /\ hist[n].seq = hist[n - 1].seq
           /\ LET r == FreshReplay(file)
              IN  /\ r.res = "Ok"
                  /\ r.applied = Applied(SelectSeq(hist, IsAcked))

\* C6: when the log is a sequence of complete, valid entries and entry i
\* (from 0) is the first whose stored sequence number is not i, a fresh
\* manager's replay fails with BadWALSeq, expected i, actual the stored
\* number.
C6_SequenceMismatchReported ==
    LET es == Entries(file)
        bad == {i \in 1..Len(es) : es[i].seq # i - 1}
    IN  (/\ Framed(file)
         /\ \A i \in 1..Len(es) : GoodFormat(es[i])
         /\ bad # {})
        => LET i == CHOOSE x \in bad : \A y \in bad : x <= y
               r == FreshReplay(file)
           IN  /\ r.res = "BadWALSeq"
               /\ r.expected = i - 1
               /\ r.actual = es[i].seq

\* The index of a sequence of entries: for each key the value of the last
\* entry with that key.
RECURSIVE IndexOf(_)
IndexOf(es) ==
    IF es = <<>> THEN EmptyMap
    ELSE LET last == es[Len(es)]
         IN  Insert(IndexOf(SubSeq(es, 1, Len(es) - 1)), last.key, last.value)

\* C7: the index a successful replay() returns for a well-formed log maps
\* each key of the log to the value of the last entry with that key, and
\* holds no other key.
C7_IndexIsLastWriterWins ==
    (ret.op = "replay" /\ ret.res = "Ok" /\ WellFormed(file)) =>
        ret.memtable = IndexOf(Entries(file))

\* C8: when the log is a sequence of complete entries with the sequence
\* numbers 0, 1, ... and one of them has a wrong magic byte, operation code
\* or padding, a fresh manager's replay aborts on the failed assertion: it
\* neither returns an index nor reports a sequence mismatch.
C8_BadFormatAborts ==
    LET es == Entries(file)
    IN  (/\ Framed(file)
         /\ \A i \in 1..Len(es) : es[i].seq = i - 1
         /\ \E i \in 1..Len(es) : ~GoodFormat(es[i]))
        => FreshReplay(file).res = "Panic"

\* What holds when reset() has returned Ok.
AfterReset ==
    /\ f = "Some"
    /\ nextseq = 0
    /\ wal_writes = 0
    /\ exists
    /\ file = <<>>
    /\ FreshReplay(file).res = "Ok"
    /\ FreshReplay(file).memtable = EmptyMap
    /\ FreshReplay(file).nextseq = 0

\* C9: after a successful reset() the manager is open with nextseq = 0 and
\* wal_writes = 0, the log exists and is empty, a fresh manager replays it
\* to an empty index and nextseq = 0, and the next successful write() puts
\* one entry with sequence number 0 in the log.
C9_ResetStartsOver ==
    [][/\ (ret'.op = "reset" /\ ret'.res = "Ok") => AfterReset'
       /\ (/\ ret.op = "reset" /\ ret.res = "Ok"
           /\ ret'.op = "write" /\ ret'.res = "Ok")
          => (/\ Len(Entries(file')) = 1
              /\ Framed(file')
              /\ Entries(file')[1].seq = 0
              /\ nextseq' = 1)]_vars

\* A write() succeeded, then reset() did, and then a write() was given the
\* sequence number 0 again.
C9_Witness ==
    /\ ret.op = "write" /\ ret.res = "Ok"
    /\ calls = 2 /\ faults = 0 /\ crashes = 0
    /\ Len(hist) = 1 /\ hist[1].seq = 0

\* replay() returned an error other than BadWALState, or ran into a failed
\* assertion.
ReplayFailed(r) ==
    r.op = "replay" /\ r.res \in {"IoError", "BadWALSeq", "Panic"}

\* C10: after a replay() that failed (sequence mismatch, failed format
\* assertion, I/O error) the manager holds no file handle and no index was
\* returned, and a write() or reset() that follows fails with BadWALState.
C10_FailedReplayLeavesUnopened ==
    [][/\ ReplayFailed(ret') => (f' = "None" /\ ret'.memtable = EmptyMap)
       /\ (ReplayFailed(ret) /\ ret'.op \in {"write", "reset"})
          => ret'.res = "BadWALState"]_vars

\* A replay() failed after it had applied an entry.
C10_Witness == ReplayFailed(ret) /\ nextseq > 0 /\ f = "None"

\* Where the entry of the i-th write() call of h starts in a file that
\* holds the entries of the calls before it and nothing else.
RECURSIVE OffsetOf(_, _)
OffsetOf(h, i) ==
    IF i <= 1 THEN 0
    ELSE OffsetOf(h, i - 1)
           + BLen(write_one(h[i - 1].seq, h[i - 1].key, h[i - 1].value))

\* C11: a write() with a key longer than 65535 bytes does not succeed, and
\* the keylen and valuelen fields of every entry written are the numbers
\* of bytes of the key and the value the entry was written for.
C11_LongKeyRejected ==
    \A i \in 1..Len(hist) :
        /\ BLen(hist[i].key) > 65535 => ~hist[i].acked
        /\ LET e == EntryAt(file, OffsetOf(hist, i))
           IN  /\ e.keylen = BLen(hist[i].key)
               /\ e.valuelen = BLen(hist[i].value)

\* C12: for a key of at most 65535 bytes, read_one on the bytes serialize
\* made of the key and the value returns that key and that value, and ends
\* at the last of those bytes.
C12_SerializeReadOneRoundTrip ==
    \A i \in 1..Len(hist) :
        BLen(hist[i].key) <= 65535 =>
            LET bytes == serialize(hist[i].seq, OP_SET, hist[i].key, hist[i].value)
                rec == KVRecord_read_one(bytes, 0)
            IN  /\ rec.kind = "some"
                /\ rec.key = hist[i].key
                /\ rec.value = hist[i].value
                /\ rec.pos = BLen(bytes)

\* A key of 65535 bytes was written with the long value, after an empty key
\* with an empty value.
C12_Witness ==
    /\ Len(hist) = 2
    /\ hist[1].key = <<>> /\ hist[1].value = <<>>
    /\ BLen(hist[2].key) = 65535 /\ BLen(hist[2].value) = 70000
    /\ ret.res = "Ok"

\* C13: a replay() of a manager that is not open, at a path where no log
\* file exists and without an I/O error, returns Ok with an empty index,
\* creates an empty log file, and leaves the manager open with nextseq = 0
\* (the sequence the next write() takes).
C13_AbsentLogBootstrap ==
    [][(ret'.op = "replay" /\ f = "None" /\ ~exists /\ ret'.res # "IoError")
        => (/\ ret'.res = "Ok"
            /\ ret'.memtable = EmptyMap
            /\ exists' /\ file' = <<>>
            /\ f' = "Some"
            /\ nextseq' = 0)]_vars

\* C14: with one manager, a log that was absent or well-formed at the
\* start, and calls that meet no I/O error, the log is always a sequence
\* of entries with the sequence numbers 0, 1, 2, ... in file order, and a
\* write() that returns Ok appends one entry, with the sequence number
\* nextseq had before the call, and adds 1 to nextseq.
C14_SequencesDenseFromZero ==
    [][/\ Framed(file')
       /\ \A i \in 1..Len(Entries(file')) : Entries(file')[i].seq = i - 1
       /\ (ret'.op = "write" /\ ret'.res = "Ok")
          => \E es \in {Entries(file')} :
                /\ Len(es) = Len(Entries(file)) + 1
                /\ es[Len(es)].pos = BLen(file)
                /\ es[Len(es)].seq = nextseq
                /\ nextseq' = nextseq + 1]_vars

\* C15: when the manager is open on a log that replays with Ok and it
\* holds the nextseq that replay ends with (the log may end in an
\* incomplete header, which replay takes for the end of the log), a
\* write() that returns Ok leaves a log that a fresh manager replays with
\* Ok, applying the entries it applied before and then the new write, with
\* the next sequence number.  (By induction: after M such writes, N + M
\* entries.)
C15_WritesAfterReplayAreReplayed ==
    [][\A pre \in {FreshReplay(file)} :
          (/\ f = "Some"
           /\ pre.res = "Ok" /\ pre.nextseq = nextseq
           /\ ret'.op = "write" /\ ret'.res = "Ok")
          => \E post \in {FreshReplay(file')} :
                /\ post.res = "Ok"
                /\ post.applied
                     = Append(pre.applied,
                              <<Len(pre.applied), hist'[Len(hist')].key,
                                hist'[Len(hist')].value>>)]_vars

\* C16: in a well-formed log the read of each header of each entry
\* returns the whole header (6 bytes of the envelope, 16 of the record),
\* and replay goes on to the last entry: a fresh manager's replay applies
\* as many entries as the log holds.
C16_EndOfLogOnlyAtEndOfFile ==
    WellFormed(file) =>
        /\ \A i \in 1..Len(Entries(file)) :
              /\ ReadLen(file, Entries(file)[i].pos, 6) = 6
              /\ ReadLen(file, Entries(file)[i].pos + 6, 16) = 16
        /\ Len(FreshReplay(file).applied) = Len(Entries(file))

\* C17: right after the first crash, no call having met an I/O error,
\* when a fresh manager's replay of the log succeeds, the index it
\* returns is the index of the first n of the write() calls issued since
\* the log was last empty, for some n: every key and value in it was
\* supplied by one of those calls.
C17_RecoveredIndexIsPrefixOfWrites ==
    (/\ ret.op = "new" /\ crashes = 1 /\ faults = 0
     /\ FreshReplay(file).res = "Ok") =>
        \E n \in 0..Len(hist) :
            FreshReplay(file).memtable = IndexOf(SubSeq(hist, 1, n))

\* C18: a replay() that fails (I/O error, sequence mismatch, failed format
\* assertion) leaves nextseq and wal_writes as they were before the call,
\* and a second replay() of the same manager over the same file, with no
\* I/O error, ends as the replay() of a fresh manager does.
C18_FailedReplayKeepsCounters ==
    [][ReplayFailed(ret') =>
          /\ UNCHANGED <<nextseq, wal_writes>>
          /\ \E again \in {replay_loop(file', 0, nextseq', wal_writes',
                                       EmptyMap, <<>>, NoFault, 0)},
                fresh \in {FreshReplay(file')} :
                /\ again.res = fresh.res
                /\ again.applied = fresh.applied
                /\ again.nextseq = fresh.nextseq
                /\ again.wal_writes = fresh.wal_writes]_vars

\* C19: a reset() on an open manager leaves the manager open whether it
\* succeeds or not, and when it fails it leaves nextseq and wal_writes as
\* they were.
C19_FailedResetStaysReady ==
    [][(ret'.op = "reset" /\ f = "Some")
        => (/\ f' = "Some"
            /\ ret'.res # "Ok" => UNCHANGED <<nextseq, wal_writes>>)]_vars

\* C20: whenever the manager is open, wal_writes equals nextseq, and both
\* equal the number of complete entries in the log file.
C20_CountersMatchLog ==
    f = "Some" =>
        /\ wal_writes = nextseq
        /\ nextseq = Len(Entries(file))

====
